---- MODULE Spec2Model ----
(***************************************************************************)
(* Network topology repair and voltage-drop analysis of the 1PWR grid      *)
(* platform: TopologyFixer (modules/data_cleaning/topology_fixer.py),      *)
(* TransformerDetector (modules/data_cleaning/transformer_detector.py),    *)
(* the back-end VoltageCalculator (backend/utils/voltage_calculator.py)    *)
(* and the violation listing of the /api/voltage endpoint                  *)
(* (backend/main.py).                                                      *)
(*                                                                         *)
(* Four specifications share the actions:                                  *)
(*   Spec        a caller gives fix_topology a transformer list; the       *)
(*               repair runs phase by phase; then a second fix_topology on *)
(*               the returned lists, or the voltage analysis of them;      *)
(*   DetectSpec  detect_transformers finds the list, then fix_topology;    *)
(*   StoredSpec  the /api/voltage endpoint, or a direct call of            *)
(*               calculate_voltage_drop, on a stored network;              *)
(*   EngineSpec  analyze_network of the network engine.                    *)
(*                                                                         *)
(* Library behaviour is modelled by contract: nx.simple_cycles yields      *)
(* every elementary circuit once, in an order and a rotation the model     *)
(* leaves open; nx.single_source_shortest_path yields a breadth-first      *)
(* tree, which one is left open; iteration over a Python set of pole ids   *)
(* has no fixed order.                                                     *)
(*                                                                         *)
(* Units: lengths and distances in metres, voltages in millivolts,         *)
(* resistance and reactance in milliohm per km, power factor in per mille, *)
(* percentages as integers.                                                *)
(***************************************************************************)
EXTENDS Integers, Sequences, FiniteSets, TLC

(***************************************************************************)
(* Bounds of the model                                                     *)
(***************************************************************************)
NumPoles == 4
MaxConductors == 3
MaxTransformers == 2
MaxLongConductors == 1
MaxDetectConductors == 3
MaxStoredConductors == 4
MaxEngineConductors == 3
MaxRawConductors == 2
MaxHubConductors == 4
MaxModelCalls == 4
MaxLoopConductors == 5
NumModelPoles == 3

PoleSeq == <<"A", "B", "C", "D", "E", "F">>
FirstPoles(n) == {PoleSeq[i] : i \in 1..n}
PoleIds == FirstPoles(NumPoles)
Idx(p) == CHOOSE i \in 1..Len(PoleSeq) : PoleSeq[i] = p

None == "None"
\* A call that has not returned a value (yet).
Nothing == [status |-> "none"]

(***************************************************************************)
(* Input records                                                           *)
(***************************************************************************)
\* Which position keys a pole dictionary carries: latitude and longitude,
\* utm_x and utm_y only, or none.
GeoKinds == {"latlon", "utm", "none"}
HasLatitude(pole) == pole.geo = "latlon"

\* Survey positions in metres; the same planar position underlies the UTM
\* pair and the latitude/longitude pair of a pole.
PosX(p) == IF Idx(p) % 2 = 1 THEN 0 ELSE 300
PosY(p) == ((Idx(p) - 1) \div 2) * 400

\* Conductor lengths in metres, below and above the 1000 m of a long line.
Lengths == {500, 1500}
Min(S) == CHOOSE x \in S : \A y \in S : x <= y
ShortLength == Min(Lengths)
LongLength == CHOOSE x \in Lengths : \A y \in Lengths : x >= y

PairSets(ids, n) == {ps \in SUBSET (ids \X ids) : Cardinality(ps) <= n}
LongSets(ps) == {l \in SUBSET ps : Cardinality(l) <= MaxLongConductors}

Pole(p, geo, nameMatch, idMatch, site, prefix) ==
    [pole_id |-> p, geo |-> geo, name_match |-> nameMatch, id_match |-> idMatch,
     site_name |-> site, id_prefix |-> prefix]

Conductor(u, v, len) ==
    [from_pole |-> u, to_pole |-> v, conductor_id |-> <<"L", u, v>>,
     length |-> len, cable_size |-> "", auto_connected |-> FALSE]

VARIABLES
    poles,          \* input pole dictionaries of the current fix_topology call
    conductors,     \* input conductor dictionaries of the current call
    transformers,   \* transformer dictionaries (pole_id, detection_method, confidence)
    pc,             \* position in the run
    G,              \* the nx.DiGraph being repaired: [nodes, edges]
    pending,        \* cycles enumerated by nx.simple_cycles, not yet processed
    fixes_applied,  \* TopologyFixer.fixes_applied of the instance in use
    pass,           \* 1: first fix_topology call, 2: call on the returned lists
    result,         \* what the current fix_topology call returned
    first,          \* what the first call returned, once a second call has begun
    voltage,        \* what calculate_voltage_drop returned
    violations,     \* the violations listed by the /api/voltage endpoint
    engine,         \* network_engine VoltageCalculator and the arguments of analyze_network
    analysis,       \* the NetworkVoltageAnalysis that analyze_network returned
    validation      \* what a NetworkValidator returned for the input lists

vars == <<poles, conductors, transformers, pc, G, pending, fixes_applied, pass,
          result, first, voltage, violations, engine, analysis, validation>>

(***************************************************************************)
(* Graph helpers (networkx, by contract)                                   *)
(***************************************************************************)
EmptyGraph == [nodes |-> {}, edges |-> {}]

\* The orders in which the elements of a set can be listed.
Orders(S) == {s \in [1..Cardinality(S) -> S] : \A i, j \in DOMAIN s : i # j => s[i] # s[j]}

HasEdge(E, u, v) == \E e \in E : e.from_pole = u /\ e.to_pole = v
EdgeAt(E, u, v) == CHOOSE e \in E : e.from_pole = u /\ e.to_pole = v
Adjacent(E, u, v) == HasEdge(E, u, v) \/ HasEdge(E, v, u)

InDegree(E, n) == Cardinality({e \in E : e.to_pole = n})
OutDegree(E, n) == Cardinality({e \in E : e.from_pole = n})

\* nx.simple_cycles: the elementary circuits, each as the set of its edges'
\* endpoint pairs.  A circuit is found once, from its least node.
CyclePairs(s) == {<<s[i], s[(i % Len(s)) + 1]>> : i \in DOMAIN s}
RECURSIVE CyclesFrom(_, _, _)
CyclesFrom(start, path, E) ==
    LET last == path[Len(path)]
        onPath == {path[i] : i \in DOMAIN path}
        succ == {e.to_pole : e \in {x \in E : x.from_pole = last}}
        further == {n \in succ \ onPath : Idx(n) > Idx(start)}
    IN (IF start \in succ THEN {CyclePairs(path)} ELSE {})
       \cup UNION {CyclesFrom(start, Append(path, n), E) : n \in further}
SimpleCycles(N, E) == UNION {CyclesFrom(s, <<s>>, E) : s \in N}

\* nx.is_directed_acyclic_graph
IsDirectedAcyclic(g) == SimpleCycles(g.nodes, g.edges) = {}

\* nx.weakly_connected_components
RECURSIVE WeakClosure(_, _, _)
WeakClosure(S, N, E) ==
    LET S2 == S \cup {m \in N : \E s \in S : Adjacent(E, s, m)}
    IN IF S2 = S THEN S ELSE WeakClosure(S2, N, E)
WeaklyConnectedComponents(g) == {WeakClosure({n}, g.nodes, g.edges) : n \in g.nodes}

\* Directed reachability: the nodes reachable from the set S along edges.
RECURSIVE Descendants(_, _)
Descendants(S, E) ==
    LET S2 == S \cup {e.to_pole : e \in {x \in E : x.from_pole \in S}}
    IN IF S2 = S THEN S ELSE Descendants(S2, E)

\* Breadth-first levels of the undirected view from root.
RECURSIVE Levels(_, _, _, _)
Levels(frontier, seen, N, E) ==
    IF frontier = {} THEN <<>>
    ELSE LET next == {m \in N \ seen : \E s \in frontier : Adjacent(E, s, m)}
         IN <<frontier>> \o Levels(next, seen \cup next, N, E)

\* nx.single_source_shortest_path on G.to_undirected(): every breadth-first
\* tree, as the set of its <<parent, child>> pairs.
RECURSIVE TreesOver(_, _, _)
TreesOver(W, lv, E) ==
    IF W = {} THEN {{}}
    ELSE LET w == CHOOSE x \in W : TRUE
             d == CHOOSE i \in DOMAIN lv : w \in lv[i]
             parents == {v \in lv[d - 1] : Adjacent(E, v, w)}
         IN UNION {{T \cup {<<v, w>>} : v \in parents} : T \in TreesOver(W \ {w}, lv, E)}
ShortestPathTrees(g, root) ==
    LET lv == Levels({root}, {root}, g.nodes, g.edges)
    IN TreesOver(UNION {lv[i] : i \in DOMAIN lv} \ {root}, lv, g.edges)

(***************************************************************************)
(* TopologyFixer                                                           *)
(***************************************************************************)
NoFixes == [cycles_removed |-> 0, disconnected_components_connected |-> 0,
            direction_fixed |-> 0, orphaned_nodes_removed |-> 0]

TransformerPoles == {t.pole_id : t \in transformers}

PoleOf(p) == CHOOSE q \in poles : q.pole_id = p

\* _build_graph: a node per pole, an edge per conductor whose two ends are nodes.
BuildGraphOf(ps, cs) ==
    LET nodes == {q.pole_id : q \in ps}
    IN [nodes |-> nodes,
        edges |-> {c \in cs : c.from_pole \in nodes /\ c.to_pole \in nodes}]

\* _calculate_edge_importance
ImportanceMainFeeder == 10
ImportanceLongLine == 2
LongLineMetres == 1000
ImportanceCable50 == 3
ImportanceCable35 == 2
HasM(conductor_id) == conductor_id[1] = "M"
CalculateEdgeImportance(e) ==
    (IF HasM(e.conductor_id) THEN ImportanceMainFeeder ELSE 1)
    * (IF e.length > LongLineMetres THEN ImportanceLongLine ELSE 1)
    * (IF e.cable_size \in {"AAC_50", "ABC_50"} THEN ImportanceCable50
       ELSE IF e.cable_size \in {"AAC_35", "ABC_35"} THEN ImportanceCable35
       ELSE 1)

\* One iteration of the loop of _remove_cycles: the edges of the cycle that
\* are still in the graph, and those of lowest importance among them (the
\* stable sort keeps the first of these in the cycle's rotation).
EdgesInCycle(E, cyc) == {e \in E : <<e.from_pole, e.to_pole>> \in cyc}
LowestImportance(es) ==
    {e \in es : \A f \in es : CalculateEdgeImportance(e) <= CalculateEdgeImportance(f)}

\* _calculate_distance, on the planar survey position
RECURSIVE ISqrtBetween(_, _, _)
ISqrtBetween(n, lo, hi) ==
    IF lo >= hi THEN lo
    ELSE LET mid == (lo + hi + 1) \div 2
         IN IF mid * mid <= n THEN ISqrtBetween(n, mid, hi)
            ELSE ISqrtBetween(n, lo, mid - 1)
ISqrt(n) == ISqrtBetween(n, 0, 46340)
SquaredDistance(p1, p2) ==
    LET dx == PosX(p1) - PosX(p2)
        dy == PosY(p1) - PosY(p2)
    IN dx * dx + dy * dy
CalculateDistance(p1, p2) == ISqrt(SquaredDistance(p1, p2))

\* _connect_components.  nx.weakly_connected_components lists the components
\* in the order of their first node, the poles being listed in PoleSeq order.
MinIdx(c) == CHOOSE i \in 1..Len(PoleSeq) :
                 PoleSeq[i] \in c /\ \A n \in c : i <= Idx(n)
FirstOf(cs) == CHOOSE c \in cs : \A d \in cs : MinIdx(c) <= MinIdx(d)
MainComponent(comps) ==
    LET withTx == {c \in comps : c \cap TransformerPoles # {}}
    IN IF withTx # {} THEN FirstOf(withTx)
       ELSE FirstOf({c \in comps : \A d \in comps : Cardinality(c) >= Cardinality(d)})
\* The candidate connections of a component: the closest pairs among the
\* nodes that carry 'latitude' (a later pair replaces the best one only when
\* strictly closer, the order being that of two Python sets).
LocatedPairs(main, comp) ==
    {pr \in main \X comp : HasLatitude(PoleOf(pr[1])) /\ HasLatitude(PoleOf(pr[2]))}
BestConnections(main, comp) ==
    LET located == LocatedPairs(main, comp)
    IN {pr \in located :
          \A qr \in located :
              SquaredDistance(pr[1], pr[2]) <= SquaredDistance(qr[1], qr[2])}
AutoConnection(pr) ==
    [from_pole |-> pr[1], to_pole |-> pr[2], conductor_id |-> <<"CONN", pr[1], pr[2]>>,
     length |-> CalculateDistance(pr[1], pr[2]), cable_size |-> "AAC_35",
     auto_connected |-> TRUE]
\* Every way to pick one best connection for each component of cs.
RECURSIVE Connections(_, _)
Connections(main, cs) ==
    IF cs = {} THEN {{}}
    ELSE LET c == CHOOSE x \in cs : TRUE
         IN UNION {{S \cup {pr} : pr \in BestConnections(main, c)} :
                      S \in Connections(main, cs \ {c})}

\* _fix_directions from one transformer pole: every edge of the breadth-first
\* tree that is stored child->parent only is reversed, keeping its attributes.
Flips(E, tree) ==
    {e \in E : /\ <<e.to_pole, e.from_pole>> \in tree
               /\ ~HasEdge(E, e.to_pole, e.from_pole)}
Reverse(e) == [e EXCEPT !.from_pole = e.to_pole, !.to_pole = e.from_pole]
Reorient(E, tree) ==
    LET flips == Flips(E, tree)
    IN [edges |-> (E \ flips) \cup {Reverse(e) : e \in flips},
        count |-> Cardinality(flips)]

\* _fix_directions: the loop over the set of transformer poles, taken in the
\* given order; every result the breadth-first trees allow.
RECURSIVE DirectionOutcomes(_, _, _)
DirectionOutcomes(N, E, order) ==
    IF order = <<>> THEN {[edges |-> E, count |-> 0]}
    ELSE IF Head(order) \notin N THEN DirectionOutcomes(N, E, Tail(order))
    ELSE UNION {
        LET r == Reorient(E, tree)
        IN {[edges |-> o.edges, count |-> o.count + r.count] :
               o \in DirectionOutcomes(N, r.edges, Tail(order))} :
        tree \in ShortestPathTrees([nodes |-> N, edges |-> E], Head(order))}

\* _remove_orphaned_nodes
Orphans(g) == {n \in g.nodes : InDegree(g.edges, n) = 0 /\ OutDegree(g.edges, n) = 0}

\* The report of fix_topology; nx.is_weakly_connected raises
\* NetworkXPointlessConcept on the null graph.
FinalTopology(g) ==
    [is_radial |-> IsDirectedAcyclic(g),
     is_connected |-> Cardinality(WeaklyConnectedComponents(g)) = 1,
     num_components |-> Cardinality(WeaklyConnectedComponents(g)),
     has_cycles |-> ~IsDirectedAcyclic(g)]

(***************************************************************************)
(* VoltageCalculator (backend/utils/voltage_calculator.py)                 *)
(***************************************************************************)
Get(rec, key, default) == IF key \in DOMAIN rec THEN rec[key] ELSE default
Range(seq) == {seq[i] : i \in DOMAIN seq}
Max(a, b) == IF a >= b THEN a ELSE b

\* CONDUCTOR_RESISTANCE and CONDUCTOR_REACTANCE, in milliohm per km
DefaultResistance == 641
DefaultReactance == 80
ResistanceCatalog ==
    {"16", "25", "35", "50", "70", "95", "120", "150", "185", "240", "10", "6", "4"}
ConductorResistance(spec) ==
    CASE spec = "16" -> 1910
      [] spec = "25" -> 1200
      [] spec = "35" -> 868
      [] spec = "50" -> 641
      [] spec = "70" -> 443
      [] spec = "95" -> 320
      [] spec = "120" -> 253
      [] spec = "150" -> 206
      [] spec = "185" -> 164
      [] spec = "240" -> 125
      [] spec = "10" -> 3080
      [] spec = "6" -> 5130
      [] spec = "4" -> 7700
      [] OTHER -> DefaultResistance
ConductorReactance(type) ==
    CASE type = "MV" -> 350
      [] type = "LV" -> 80
      [] type = "DROP" -> 60
      [] OTHER -> DefaultReactance

EstimatedCurrent == 10
DefaultPowerFactor == 850
Sqrt3Milli == 1732
StatisticsThreshold == 7

\* A variant of _calculate_conductor_voltage_drop that treats every conductor
\* as single-phase.
CalculateConductorVoltageDropSinglePhase(conductor, power_factor) ==
    LET length == Get(conductor, "length", 0)
        resistance == ConductorResistance(Get(conductor, "conductor_spec", "50"))
        reactance == ConductorReactance(Get(conductor, "conductor_type", "LV"))
        sin_phi == ISqrt(1000000 - power_factor * power_factor)
        per_km == (resistance * power_factor + reactance * sin_phi) \div 1000
    IN (EstimatedCurrent * length * per_km) \div 1000
\* _calculate_conductor_voltage_drop, in millivolts
CalculateConductorVoltageDrop(conductor, power_factor) ==
    LET length == Get(conductor, "length", 0)
        conductor_spec == Get(conductor, "conductor_spec", "50")
        conductor_type == Get(conductor, "conductor_type", "LV")
        resistance == ConductorResistance(conductor_spec)
        reactance == ConductorReactance(conductor_type)
        cos_phi == power_factor
        sin_phi == ISqrt(1000000 - power_factor * power_factor)
        per_km == (resistance * cos_phi + reactance * sin_phi) \div 1000
        voltage_drop == (EstimatedCurrent * length * per_km) \div 1000
    IN IF conductor_type = "MV" THEN (voltage_drop * Sqrt3Milli) \div 1000
       ELSE voltage_drop

\* _build_network: the nx.Graph of the pole list and the conductor list; the
\* neighbours of a node in the order their edges were added, and for a pair of
\* nodes the data of the last conductor that joins them.
NetworkNodes(poleList, condList) ==
    Range(poleList) \cup {condList[i].from_pole : i \in DOMAIN condList}
                    \cup {condList[i].to_pole : i \in DOMAIN condList}
RECURSIVE AddEdges(_, _)
AddEdges(adj, condList) ==
    IF condList = <<>> THEN adj
    ELSE LET u == Head(condList).from_pole
             v == Head(condList).to_pole
             a1 == IF v \in Range(adj[u]) THEN adj
                   ELSE [adj EXCEPT ![u] = Append(@, v)]
             a2 == IF u \in Range(a1[v]) THEN a1
                   ELSE [a1 EXCEPT ![v] = Append(@, u)]
         IN AddEdges(a2, Tail(condList))
BuildNetwork(poleList, condList) ==
    AddEdges([n \in NetworkNodes(poleList, condList) |-> <<>>], condList)
Joins(c, u, v) ==
    \/ c.from_pole = u /\ c.to_pole = v
    \/ c.from_pole = v /\ c.to_pole = u
GetEdgeData(condList, u, v) ==
    LET last == CHOOSE i \in DOMAIN condList :
                    /\ Joins(condList[i], u, v)
                    /\ \A j \in DOMAIN condList : Joins(condList[j], u, v) => j <= i
    IN condList[last]

\* nx.Graph.degree: a self-loop counts twice.
Degree(network, n) ==
    Len(network[n]) + (IF n \in Range(network[n]) THEN 1 ELSE 0)

\* _find_source_pole.  max() keeps the first maximum in the iteration order:
\* that of the set mv_poles for strategy 1 (any pole of greatest degree), the
\* node order of the network for strategy 3.
MvPoles(condList) ==
    UNION {{condList[i].from_pole, condList[i].to_pole} :
              i \in {j \in DOMAIN condList :
                        Get(condList[j], "conductor_type", None) = "MV"}}
FindSourcePoles(poleList, condList, network) ==
    LET mv == MvPoles(condList) \cap DOMAIN network
        nodeOrder == poleList \o
                     SelectSeq(PoleSeq, LAMBDA n : n \in DOMAIN network \ Range(poleList))
        best(i) == \A j \in DOMAIN nodeOrder :
                      /\ Degree(network, nodeOrder[j]) <= Degree(network, nodeOrder[i])
                      /\ j < i => Degree(network, nodeOrder[j]) < Degree(network, nodeOrder[i])
    IN IF mv # {} /\ DOMAIN network # {}
       THEN {n \in mv : \A m \in mv : Degree(network, m) <= Degree(network, n)}
       ELSE IF DOMAIN network # {}
       THEN {nodeOrder[i] : i \in {k \in DOMAIN nodeOrder : best(k)}}
       ELSE IF poleList # <<>> THEN {poleList[1]}
       ELSE {None}

\* _calculate_network_voltages: the inner loop over the neighbours of the
\* pole just taken from the queue.
RECURSIVE VisitNeighbors(_, _, _, _, _, _, _, _)
VisitNeighbors(nbrs, current_pole, current_voltage, visited, pv, queue, condList, pf) ==
    IF nbrs = <<>> THEN [pole_voltages |-> pv, queue |-> queue]
    ELSE LET neighbor == Head(nbrs)
             voltage_drop == CalculateConductorVoltageDrop(
                                 GetEdgeData(condList, current_pole, neighbor), pf)
             neighbor_voltage == current_voltage - voltage_drop
             store == \/ neighbor \notin DOMAIN pv
                      \/ pv[neighbor] < neighbor_voltage
             stored == Max(0, neighbor_voltage)
         IN IF neighbor \in visited \/ ~store
            THEN VisitNeighbors(Tail(nbrs), current_pole, current_voltage, visited,
                                pv, queue, condList, pf)
            ELSE VisitNeighbors(Tail(nbrs), current_pole, current_voltage, visited,
                                [n \in DOMAIN pv \cup {neighbor} |->
                                    IF n = neighbor THEN stored ELSE pv[n]],
                                Append(queue, <<neighbor, stored>>), condList, pf)

\* _calculate_network_voltages: the loop over the queue.
RECURSIVE Propagate(_, _, _, _, _, _)
Propagate(queue, visited, pv, network, condList, pf) ==
    IF queue = <<>> THEN pv
    ELSE LET current_pole == Head(queue)[1]
             current_voltage == Head(queue)[2]
         IN IF current_pole \in visited
            THEN Propagate(Tail(queue), visited, pv, network, condList, pf)
            ELSE LET nbrs == IF current_pole \in DOMAIN network
                             THEN network[current_pole] ELSE <<>>
                     r == VisitNeighbors(nbrs, current_pole, current_voltage,
                                         visited \cup {current_pole}, pv,
                                         Tail(queue), condList, pf)
                 IN Propagate(r.queue, visited \cup {current_pole}, r.pole_voltages,
                              network, condList, pf)
CalculateNetworkVoltages(source_pole_id, source_voltage, network, condList, pf) ==
    Propagate(<<<<source_pole_id, source_voltage>>>>, {},
              [n \in {source_pole_id} |-> source_voltage], network, condList, pf)

\* voltage_drop_percent > threshold, for a voltage v under source voltage v0
DropPercentExceeds(v, v0, threshold) == (v0 - v) * 100 > threshold * v0

\* A variant of _empty_results that answers with a zero voltage for every pole.
EmptyResultsZeroVoltages(source_voltage) ==
    [status |-> "returned", source_voltage |-> source_voltage, source_pole |-> None,
     conductor_voltages |-> {}, pole_voltages |-> [n \in PoleIds |-> 0],
     logged |-> {},
     statistics |-> [total_poles |-> 0, total_conductors |-> 0, poles_analyzed |-> 0,
                     poles_below_threshold |-> 0]]
\* _empty_results
EmptyResults(source_voltage) ==
    [status |-> "returned", source_voltage |-> source_voltage, source_pole |-> None,
     conductor_voltages |-> {}, pole_voltages |-> <<>>,
     logged |-> {},
     statistics |-> [total_poles |-> 0, total_conductors |-> 0, poles_analyzed |-> 0,
                     poles_below_threshold |-> 0]]

\* calculate_voltage_drop, once the source pole is known.  The field logged
\* holds the warnings the call logged: the module has no logger and logs none.
VoltageResults(poleList, condList, source_voltage, source_pole_id, pf) ==
    LET network == BuildNetwork(poleList, condList)
        pv == CalculateNetworkVoltages(source_pole_id, source_voltage, network,
                                       condList, pf)
    IN [status |-> "returned",
        source_voltage |-> source_voltage,
        source_pole |-> source_pole_id,
        conductor_voltages |->
            {[conductor_id |-> condList[i].conductor_id,
              from_pole |-> condList[i].from_pole,
              to_pole |-> condList[i].to_pole,
              from_voltage |-> pv[condList[i].from_pole],
              to_voltage |-> pv[condList[i].to_pole]] :
                i \in {j \in DOMAIN condList :
                          /\ condList[j].from_pole \in DOMAIN pv
                          /\ condList[j].to_pole \in DOMAIN pv}},
        pole_voltages |-> [n \in Range(poleList) \cap DOMAIN pv |-> pv[n]],
        logged |-> {},
        statistics |->
            [total_poles |-> Len(poleList),
             total_conductors |-> Len(condList),
             poles_analyzed |-> Cardinality(DOMAIN pv),
             poles_below_threshold |->
                 Cardinality({n \in DOMAIN pv :
                     DropPercentExceeds(pv[n], source_voltage, StatisticsThreshold)})]]

\* calculate_voltage_drop: every result the choice of the source pole allows
CalculateVoltageDrop(poleList, condList, source_voltage, source_pole_id, pf) ==
    LET sources == IF source_pole_id # None THEN {source_pole_id}
                   ELSE FindSourcePoles(poleList, condList,
                                        BuildNetwork(poleList, condList))
    IN {IF src = None THEN EmptyResults(source_voltage)
        ELSE VoltageResults(poleList, condList, source_voltage, src, pf) :
           src \in sources}

\* calculate_voltage_endpoint, lines 564-573
ListViolations(results, threshold) ==
    {n \in DOMAIN results.pole_voltages :
        DropPercentExceeds(results.pole_voltages[n], results.source_voltage, threshold)}

\* The lists the voltage calculator is given.  _graph_to_lists yields the
\* nodes in their order of insertion and the edges grouped by their first node
\* in that order and, within a group, in the order the edges were added to
\* that node, which the model leaves open; a stored network is listed alike.
PoleListOf(ps) == SelectSeq(PoleSeq, LAMBDA n : n \in {q.pole_id : q \in ps})
RECURSIVE ConductorListsFrom(_, _)
ConductorListsFrom(i, cs) ==
    IF i > Len(PoleSeq) THEN {<<>>}
    ELSE UNION {{a \o b : b \in ConductorListsFrom(i + 1, cs)} :
                   a \in Orders({c \in cs : c.from_pole = PoleSeq[i]})}
ConductorLists(cs) == ConductorListsFrom(1, cs)

SourceVoltages == {12000, 11000000}
Thresholds == {7, 100}

(***************************************************************************)
(* TransformerDetector                                                     *)
(***************************************************************************)
PatternConfidence == 80
TopologySourceConfidence == 90
TopologyJunctionConfidence == 60
SubnetworkRootConfidence == 70
MinHubConnections == 4

Transformer(p, method, confidence) ==
    [pole_id |-> p, detection_method |-> method, confidence |-> confidence]

\* _detect_by_patterns: a pole whose name or id matches a transformer pattern
DetectByPatterns(ps) ==
    {Transformer(q.pole_id, "pattern", PatternConfidence) :
        q \in {x \in ps : x.name_match \/ x.id_match}}

\* _detect_by_topology: count >= max(2 * average, 4), the average being taken
\* over the pole ids that occur in a conductor
ConnectionCount(cs, p) ==
    Cardinality({c \in cs : c.from_pole = p}) + Cardinality({c \in cs : c.to_pole = p})
DetectByTopology(ps, cs) ==
    LET counted == {c.from_pole : c \in cs} \cup {c.to_pole : c \in cs}
        total == 2 * Cardinality(cs)
        hub(p) == /\ ConnectionCount(cs, p) >= MinHubConnections
                  /\ ConnectionCount(cs, p) * Cardinality(counted) >= 2 * total
    IN {Transformer(p, "topology",
                    IF \E c \in cs : c.to_pole = p THEN TopologyJunctionConfidence
                    ELSE TopologySourceConfidence) :
           p \in {x \in counted \cap {q.pole_id : q \in ps} : hub(x)}}

\* _find_network_root: every value it can return.  With several roots the
\* first one, in the iteration order of a set, whose id matches a pattern is
\* returned, else the least root.
FindNetworkRoot(sitePoles, siteConductors) ==
    LET pole_ids == {q.pole_id : q \in sitePoles}
        has_incoming == {c.to_pole : c \in siteConductors} \cap pole_ids
        has_outgoing == {c.from_pole : c \in siteConductors} \cap pole_ids
        roots == has_outgoing \ has_incoming
        matching == {r \in roots : \E q \in sitePoles : q.pole_id = r /\ q.id_match}
    IN IF Cardinality(roots) = 1 THEN roots
       ELSE IF roots # {}
       THEN (IF matching # {} THEN matching
             ELSE {r \in roots : \A o \in roots : Idx(r) <= Idx(o)})
       ELSE {None}

\* _detect_subnetwork_roots: the poles of a site are those that carry its
\* site_name, its conductors those whose from_pole begins with "<SITE>_".
IdPrefix(ps, id) ==
    IF \E q \in ps : q.pole_id = id
    THEN (CHOOSE q \in ps : q.pole_id = id).id_prefix
    ELSE ""
SiteNames(ps) == {q.site_name : q \in ps} \ {""}
RECURSIVE SubnetworkRoots(_, _, _)
SubnetworkRoots(sites, ps, cs) ==
    IF sites = {} THEN {{}}
    ELSE LET site == CHOOSE x \in sites : TRUE
             sitePoles == {q \in ps : q.site_name = site}
             siteConductors == {c \in cs : IdPrefix(ps, c.from_pole) = site}
             found == {IF root = None THEN {}
                       ELSE {Transformer(root, "subnetwork_root", SubnetworkRootConfidence)} :
                          root \in FindNetworkRoot(sitePoles, siteConductors)}
         IN UNION {{S \cup f : f \in found} : S \in SubnetworkRoots(sites \ {site}, ps, cs)}
DetectSubnetworkRoots(ps, cs) == SubnetworkRoots(SiteNames(ps), ps, cs)

\* _deduplicate_transformers over the list pattern + topology + subnetwork
\* roots: for a pole the first detection stays unless a later one has a
\* strictly higher confidence.
MethodRank(t) ==
    CASE t.detection_method = "pattern" -> 1
      [] t.detection_method = "topology" -> 2
      [] OTHER -> 3
\* A variant of _deduplicate_transformers that keeps the first detection of a
\* pole whatever the confidences.
DeduplicateTransformersKeepFirst(ts) ==
    {t \in ts : \A u \in ts :
        (u.pole_id = t.pole_id /\ u # t) => MethodRank(t) < MethodRank(u)}
DeduplicateTransformers(ts) ==
    {t \in ts : \A u \in ts :
        (u.pole_id = t.pole_id /\ u # t) =>
            \/ t.confidence > u.confidence
            \/ t.confidence = u.confidence /\ MethodRank(t) < MethodRank(u)}

\* detect_transformers: every list it can return, as a set
DetectTransformers(ps, cs) ==
    {DeduplicateTransformers(DetectByPatterns(ps) \cup DetectByTopology(ps, cs) \cup roots) :
        roots \in DetectSubnetworkRoots(ps, cs)}

(***************************************************************************)
(* NetworkValidator (backend/validators/network_validator.py)              *)
(***************************************************************************)
\* The conductors with an end that is not the id of a pole.
InvalidConductors(ps, cs) ==
    LET pole_ids == {q.pole_id : q \in ps}
    IN {c \in cs : c.from_pole \notin pole_ids \/ c.to_pole \notin pole_ids}

\* The pole ids that are an end of some conductor.
ConnectedPoles(ps, cs) ==
    LET pole_ids == {q.pole_id : q \in ps}
    IN ({c.from_pole : c \in cs} \cup {c.to_pole : c \in cs}) \cap pole_ids

\* validate_network of the back end
ValidateNetworkResults(ps, cs) ==
    LET pole_ids == {q.pole_id : q \in ps}
        invalid == InvalidConductors(ps, cs)
        orphaned == pole_ids \ ConnectedPoles(ps, cs)
        duplicates == {q.pole_id : q \in {x \in ps : \E y \in ps : y # x /\ y.pole_id = x.pole_id}}
        components == WeaklyConnectedComponents([nodes |-> pole_ids, edges |-> cs \ invalid])
        total_items == Cardinality(ps) + Cardinality(cs)
        valid_items == Cardinality(ps) - Cardinality(orphaned) - Cardinality(duplicates)
                       + Cardinality(cs) - Cardinality(invalid)
    IN [status |-> "returned",
        validator |-> "backend",
        orphaned_poles |-> orphaned,
        invalid_conductors |-> {c.conductor_id : c \in invalid},
        duplicate_pole_ids |-> duplicates,
        disconnected_components |->
            IF cs # {} /\ ps # {} /\ Cardinality(components) > 1 THEN components ELSE {},
        statistics |-> [total_poles |-> Cardinality(ps),
                        total_conductors |-> Cardinality(cs),
                        validation_rate |->
                            IF total_items > 0 THEN (valid_items * 100) \div total_items
                            ELSE 0]]

(***************************************************************************)
(* NetworkValidator of the network engine, on the graph of a NetworkModel  *)
(***************************************************************************)
\* NetworkModel.import_from_dict: add_conductor adds a pole for an end that
\* is not yet in the graph.
ModelGraph(ps, cs) ==
    [nodes |-> {q.pole_id : q \in ps} \cup {c.from_pole : c \in cs}
                                       \cup {c.to_pole : c \in cs},
     edges |-> cs]

\* validate_network of the engine.  _check_connectivity calls
\* nx.is_weakly_connected, which raises NetworkXPointlessConcept on the null
\* graph.
EngineValidateResults(g, has_transformer) ==
    IF g.nodes = {} THEN [status |-> "NetworkXPointlessConcept"]
    ELSE LET errors ==
                 (IF Cardinality(WeaklyConnectedComponents(g)) # 1
                  THEN {"disconnected"} ELSE {})
                 \cup (IF has_transformer \cap g.nodes = {}
                       THEN {"no_transformer"} ELSE {})
                 \cup (IF \E e \in g.edges : e.length <= 0
                       THEN {"invalid_length"} ELSE {})
             warnings == IF IsDirectedAcyclic(g) THEN {} ELSE {"cycles"}
         IN [status |-> "returned",
             validator |-> "engine",
             is_valid |-> errors = {},
             errors |-> errors,
             warnings |-> warnings,
             node_count |-> Cardinality(g.nodes),
             edge_count |-> Cardinality(g.edges)]

(***************************************************************************)
(* network_engine VoltageCalculator (modules/network_engine)               *)
(* Power in watts, current in milliamperes, impedance in milliohm per km.  *)
(***************************************************************************)
VoltageLevels == {230, 400, 11000, 19000}
IsThreePhase(voltage_level) == voltage_level \in {11000, 400}
DefaultLoadPerConnection == 2000
EnginePowerFactorTenths == 9
Unreached == 1000000

\* The names of DEFAULT_CONDUCTORS
ConductorLibrary == {"AAC_35", "AAC_50", "AAC_25", "ABC_50"}

\* calculate_voltage_drop of the engine, lines 138-140: the warning logged for
\* a conductor type that is not in the library
UnknownTypeWarnings(types) == types \ ConductorLibrary

\* DEFAULT_CONDUCTORS and ConductorSpec.impedance_per_km, in magnitude
ImpedancePerKm(conductor_type) ==
    CASE conductor_type = "AAC_50" -> ISqrt(641 * 641 + 380 * 380)
      [] conductor_type = "AAC_25" -> ISqrt(1283 * 1283 + 400 * 400)
      [] conductor_type = "ABC_50" -> ISqrt(641 * 641 + 80 * 80)
      [] OTHER -> ISqrt(917 * 917 + 390 * 390)

\* calculate_current
CalculateCurrent(power_w, voltage_v, is_three_phase) ==
    LET single == (power_w * 10000) \div (EnginePowerFactorTenths * voltage_v)
    IN IF is_three_phase THEN (single * 1000) \div Sqrt3Milli ELSE single

\* calculate_voltage_drop of the engine, in millivolts
SegmentVoltageDrop(length, current_ma, conductor_type, is_three_phase) ==
    LET perKm == (current_ma * ImpedancePerKm(conductor_type)) \div 1000
        oneWay == (perKm * length) \div 1000
    IN IF is_three_phase THEN (oneWay * Sqrt3Milli) \div 1000 ELSE 2 * oneWay

\* nx.single_source_dijkstra_path_length with weight 'length'
RECURSIVE Relax(_, _)
Relax(dist, E) ==
    LET d2 == [n \in DOMAIN dist |->
                 Min({dist[n]} \cup {dist[e.from_pole] + e.length :
                        e \in {x \in E : x.to_pole = n /\ dist[x.from_pole] < Unreached}})]
    IN IF d2 = dist THEN dist ELSE Relax(d2, E)
DijkstraPathLength(N, E, source) ==
    Relax([n \in N |-> IF n = source THEN 0 ELSE Unreached], E)
\* nx.single_source_dijkstra_path: every shortest path to node n
RECURSIVE DijkstraPaths(_, _, _, _)
DijkstraPaths(dist, E, source, n) ==
    IF n = source THEN {<<source>>}
    ELSE UNION {{Append(path, n) : path \in DijkstraPaths(dist, E, source, e.from_pole)} :
                   e \in {x \in E : /\ x.to_pole = n
                                    /\ x.from_pole # n
                                    /\ dist[x.from_pole] < Unreached
                                    /\ dist[x.from_pole] + x.length = dist[n]}}

RECURSIVE SumLoads(_, _)
SumLoads(S, load_profile) ==
    IF S = {} THEN 0
    ELSE LET n == CHOOSE x \in S : TRUE
         IN load_profile[n] + SumLoads(S \ {n}, load_profile)

\* analyze_network, lines 231-265: the drop accumulated along one path; the
\* load of a segment is that of its far end and of everything downstream
RECURSIVE PathVoltageDrop(_, _, _, _, _)
PathVoltageDrop(path, E, load_profile, source_voltage, is_three_phase) ==
    IF Len(path) < 2 THEN 0
    ELSE LET edge_data == EdgeAt(E, path[1], path[2])
             segment_load == SumLoads(Descendants({path[2]}, E), load_profile)
             segment_current == CalculateCurrent(segment_load, source_voltage,
                                                 is_three_phase)
         IN SegmentVoltageDrop(edge_data.length, segment_current,
                               Get(edge_data, "conductor_type", "AAC_35"),
                               is_three_phase)
            + PathVoltageDrop(Tail(path), E, load_profile, source_voltage,
                              is_three_phase)

\* analyze_network: every analysis the choice among equally short paths allows
AnalyzeNetworkResults(calc, network, transformer_node, voltage_level) ==
    LET source_voltage == voltage_level
        is_three_phase == IsThreePhase(voltage_level)
        load_profile == [n \in DOMAIN network.connections_count |->
                            network.connections_count[n] * calc.default_load_per_connection]
        dist == DijkstraPathLength(network.nodes, network.edges, transformer_node)
        reached == {n \in network.nodes : dist[n] < Unreached}
        paths(n) == DijkstraPaths(dist, network.edges, transformer_node, n)
        drop(path) == PathVoltageDrop(path, network.edges, load_profile, source_voltage,
                                      is_three_phase)
        node(n, path) ==
            [voltage_drop |-> drop(path),
             final_voltage |-> source_voltage * 1000 - drop(path),
             within_limits |->
                 drop(path) * 100 <= calc.voltage_drop_threshold * source_voltage * 1000,
             path_from_source |-> path]
        options == UNION {{node(n, path) : path \in paths(n)} : n \in reached}
        typesOn(path) == {Get(EdgeAt(network.edges, path[i], path[i + 1]),
                              "conductor_type", "AAC_35") : i \in 1..(Len(path) - 1)}
    IN {[status |-> "returned",
         source_voltage |-> source_voltage,
         threshold_percent |-> calc.voltage_drop_threshold,
         all_nodes |-> all,
         violations |-> {n \in reached : ~all[n].within_limits},
         is_valid |-> \A n \in reached : all[n].within_limits,
         logged |-> UnknownTypeWarnings(
                        UNION {typesOn(all[n].path_from_source) : n \in reached})] :
            all \in {f \in [reached -> options] :
                        \A n \in reached : f[n] \in {node(n, path) : path \in paths(n)}}}

(***************************************************************************)
(* The run                                                                  *)
(***************************************************************************)
Given(p) == [pole_id |-> p, detection_method |-> "given", confidence |-> 100]
TransformerSets == {{PoleSeq[i] : i \in 1..k} : k \in 0..MaxTransformers}

ConductorsOf(ps, long) ==
    {Conductor(pr[1], pr[2], IF pr \in long THEN LongLength ELSE ShortLength) :
        pr \in ps}

\* A caller supplies poles, conductors and a transformer list to fix_topology.
InitGiven ==
    \E np \in 0..NumPoles, tx \in TransformerSets :
      \E ps \in PairSets(FirstPoles(np), MaxConductors) :
        \E long \in LongSets(ps) :
          /\ poles = {Pole(p, "latlon", FALSE, FALSE, "", "") : p \in FirstPoles(np)}
          /\ conductors = ConductorsOf(ps, long)
          /\ transformers = {Given(p) : p \in tx}
          /\ pc = "build"

\* A network is in storage for the /api/voltage endpoint.
InitStored ==
    \E ps \in PairSets(PoleIds, MaxStoredConductors), tx \in {{}, {PoleSeq[1]}} :
      \E long \in LongSets(ps) :
        /\ poles = {Pole(p, "latlon", FALSE, FALSE, "", "") : p \in PoleIds}
        /\ conductors = ConductorsOf(ps, long)
        /\ transformers = {Given(p) : p \in tx}
        /\ pc = "stored"

\* detect_transformers is to find the transformers.  Pole A may match a
\* transformer pattern by its name or by its id; the poles may carry a
\* site_name, their ids then beginning with it.
MatchKinds == {"none", "name", "id"}
SiteProfiles == {"none", "one", "two"}
SiteOf(profile, p) ==
    CASE profile = "none" -> ""
      [] profile = "one" -> "KET"
      [] OTHER -> IF Idx(p) <= 2 THEN "KET" ELSE "SHG"
InitDetect ==
    \E geo \in GeoKinds, match \in MatchKinds, profile \in SiteProfiles :
      \E ps \in PairSets(PoleIds, MaxDetectConductors) :
        /\ poles = {Pole(p, geo, p = PoleSeq[1] /\ match = "name",
                         p = PoleSeq[1] /\ match = "id",
                         SiteOf(profile, p), SiteOf(profile, p)) : p \in PoleIds}
        /\ conductors = ConductorsOf(ps, {})
        /\ transformers = {}
        /\ pc = "detect"

\* detect_transformers on a network with a hub: up to MaxHubConductors
\* conductors, one of those leaving pole A possibly doubled by a second
\* circuit between the same poles.  The id of pole A, or the ids of poles A
\* and B, may match a transformer pattern.
SecondCircuit(u, v) ==
    [Conductor(u, v, ShortLength) EXCEPT !.conductor_id = <<"M", u, v>>]
HubMatchKinds == MatchKinds \cup {"ids"}
InitHub ==
    \E match \in HubMatchKinds, profile \in SiteProfiles :
      \E ps \in PairSets(PoleIds, MaxHubConductors) :
        \E twin \in {tw \in SUBSET {pr \in ps : pr[1] = PoleSeq[1]} : Cardinality(tw) <= 1} :
          /\ poles = {Pole(p, "latlon", p = PoleSeq[1] /\ match = "name",
                           \/ p = PoleSeq[1] /\ match \in {"id", "ids"}
                           \/ p = PoleSeq[2] /\ match = "ids",
                           SiteOf(profile, p), SiteOf(profile, p)) : p \in PoleIds}
          /\ conductors = ConductorsOf(ps, {})
                             \cup {SecondCircuit(pr[1], pr[2]) : pr \in twin}
          /\ transformers = {}
          /\ pc = "detect"

\* A network for analyze_network: pole A is the transformer node, the other
\* poles carry customer connections.
ConnectionCounts == {0, 4}
EnginePairSets ==
    {ps \in SUBSET {pr \in PoleIds \X PoleIds : pr[1] # pr[2]} :
        Cardinality(ps) <= MaxEngineConductors}
InitEngine ==
    \E ps \in EnginePairSets, level \in VoltageLevels, threshold \in Thresholds :
      \E long \in LongSets(ps), counts \in [PoleIds \ {PoleSeq[1]} -> ConnectionCounts] :
        /\ engine = [status |-> "ready",
                     voltage_drop_threshold |-> threshold,
                     default_load_per_connection |-> DefaultLoadPerConnection,
                     network |-> [nodes |-> PoleIds,
                                  edges |-> ConductorsOf(ps, long),
                                  connections_count |->
                                      [n \in PoleIds |->
                                          IF n = PoleSeq[1] THEN 0 ELSE counts[n]]],
                     transformer_node |-> PoleSeq[1],
                     voltage_level |-> level]
        /\ pc = "engine"

Idle ==
    /\ G = EmptyGraph
    /\ pending = {}
    /\ fixes_applied = NoFixes
    /\ pass = 1
    /\ result = Nothing
    /\ first = Nothing
    /\ voltage = Nothing
    /\ violations = Nothing
    /\ analysis = Nothing
    /\ validation = Nothing

NoEngine == engine = Nothing

Init == InitGiven /\ Idle /\ NoEngine

\* fix_topology, line 46, and _remove_cycles up to its loop: the cycles are
\* enumerated once, on the graph as built.
BuildGraph ==
    /\ pc = "build"
    /\ G' = BuildGraphOf(poles, conductors)
    /\ pending' = SimpleCycles(G'.nodes, G'.edges)
    /\ pc' = IF pending' = {} THEN "connect" ELSE "cycle_loop"
    /\ UNCHANGED <<poles, conductors, transformers, fixes_applied, pass, result, first, voltage, violations, engine, analysis, validation>>

\* One iteration of the loop of _remove_cycles.
ProcessCycle ==
    /\ pc = "cycle_loop"
    /\ \E cyc \in pending :
        /\ pending' = pending \ {cyc}
        /\ pc' = IF pending' = {} THEN "connect" ELSE "cycle_loop"
        /\ IF Cardinality(cyc) < 2 \/ EdgesInCycle(G.edges, cyc) = {}
           THEN UNCHANGED <<G, fixes_applied>>
           ELSE \E e \in LowestImportance(EdgesInCycle(G.edges, cyc)) :
                  /\ G' = [G EXCEPT !.edges = @ \ {e}]
                  /\ fixes_applied' =
                       [fixes_applied EXCEPT !.cycles_removed = @ + 1]
    /\ UNCHANGED <<poles, conductors, transformers, pass, result, first, voltage, violations, engine, analysis, validation>>

\* _connect_components
ConnectComponents ==
    /\ pc = "connect"
    /\ pc' = "direct"
    /\ LET comps == WeaklyConnectedComponents(G)
       IN IF Cardinality(comps) <= 1
          THEN UNCHANGED <<G, fixes_applied>>
          ELSE LET main == MainComponent(comps)
                   stitchable == {c \in comps \ {main} : BestConnections(main, c) # {}}
               IN \E picked \in Connections(main, stitchable) :
                    /\ G' = [G EXCEPT !.edges =
                                @ \cup {AutoConnection(pr) : pr \in picked}]
                    /\ fixes_applied' =
                         [fixes_applied EXCEPT !.disconnected_components_connected =
                             @ + Cardinality(stitchable)]
    /\ UNCHANGED <<poles, conductors, transformers, pending, pass, result, first, voltage, violations, engine, analysis, validation>>

\* _fix_directions
FixDirections ==
    /\ pc = "direct"
    /\ pc' = "prune"
    /\ \E order \in Orders(TransformerPoles) :
         \E o \in DirectionOutcomes(G.nodes, G.edges, order) :
           /\ G' = [G EXCEPT !.edges = o.edges]
           /\ fixes_applied' = [fixes_applied EXCEPT !.direction_fixed = @ + o.count]
    /\ UNCHANGED <<poles, conductors, transformers, pending, pass, result, first, voltage, violations, engine, analysis, validation>>

\* _remove_orphaned_nodes
RemoveOrphanedNodes ==
    /\ pc = "prune"
    /\ pc' = "report"
    /\ G' = [G EXCEPT !.nodes = @ \ Orphans(G)]
    /\ fixes_applied' = [fixes_applied EXCEPT !.orphaned_nodes_removed =
                            @ + Cardinality(Orphans(G))]
    /\ UNCHANGED <<poles, conductors, transformers, pending, pass, result, first, voltage, violations, engine, analysis, validation>>

\* fix_topology, lines 60-74: _graph_to_lists and the report
Return ==
    /\ pc = "report"
    /\ pc' = "done"
    /\ result' =
         IF G.nodes = {} THEN [status |-> "NetworkXPointlessConcept"]
         ELSE [status |-> "returned",
               poles |-> {q \in poles : q.pole_id \in G.nodes},
               conductors |-> G.edges,
               report |-> [fixes_applied |-> fixes_applied,
                           final_topology |-> FinalTopology(G)]]
    /\ UNCHANGED <<poles, conductors, transformers, G, pending, fixes_applied, pass,
                   first, voltage, violations, engine, analysis, validation>>

\* A second fix_topology, on the lists the first one returned, with the same
\* transformer list and a new TopologyFixer.
SecondFix ==
    /\ pc = "done"
    /\ pass = 1
    /\ result.status = "returned"
    /\ first' = result
    /\ poles' = result.poles
    /\ conductors' = result.conductors
    /\ pass' = 2
    /\ fixes_applied' = NoFixes
    /\ result' = Nothing
    /\ G' = EmptyGraph
    /\ pc' = "build"
    /\ UNCHANGED <<transformers, pending, voltage, violations, engine, analysis, validation>>

\* A second fix_topology on the same TopologyFixer, on the lists the first
\* call returned: self.fixes_applied is set in __init__ only, and the report
\* the first call returned holds that very dictionary, not a copy of it.
SameFixerAgain ==
    /\ pc = "done"
    /\ pass = 1
    /\ result.status = "returned"
    /\ first' = [status |-> "returned", fixer |-> "same", report |-> result.report]
    /\ poles' = result.poles
    /\ conductors' = result.conductors
    /\ pass' = 2
    /\ result' = Nothing
    /\ G' = EmptyGraph
    /\ pc' = "build"
    /\ UNCHANGED <<transformers, pending, fixes_applied, voltage, violations, engine,
                   analysis, validation>>

\* What the caller of the first call reads in the report it was given.
FirstReport ==
    IF Get(first, "fixer", "new") = "same"
    THEN [first.report EXCEPT !.fixes_applied = fixes_applied]
    ELSE first.report

\* The lists handed to the voltage calculator: the stored network, or the
\* lists fix_topology returned.
Analysable ==
    \/ pc = "stored"
    \/ pc = "done" /\ pass = 1 /\ result.status = "returned"
AnalysedPoles == IF result.status = "returned" THEN result.poles ELSE poles
AnalysedConductors == IF result.status = "returned" THEN result.conductors ELSE conductors

\* calculate_voltage_drop, the caller naming one of the transformer poles as
\* the source.
CalculateVoltage ==
    /\ Analysable
    /\ \E v0 \in SourceVoltages, src \in TransformerPoles,
          condList \in ConductorLists(AnalysedConductors) :
         voltage' \in CalculateVoltageDrop(PoleListOf(AnalysedPoles), condList, v0,
                                           src, DefaultPowerFactor)
    /\ pc' = "analysed"
    /\ UNCHANGED <<poles, conductors, transformers, G, pending, fixes_applied, pass,
                   result, first, violations, engine, analysis, validation>>

\* calculate_voltage_endpoint: the request carries no source pole, so the
\* source is auto-detected; the violations are listed against the request's
\* threshold.
CalculateVoltageEndpoint ==
    /\ Analysable
    /\ \E v0 \in SourceVoltages, threshold \in Thresholds,
          condList \in ConductorLists(AnalysedConductors) :
         /\ voltage' \in CalculateVoltageDrop(PoleListOf(AnalysedPoles), condList, v0,
                                              None, DefaultPowerFactor)
         /\ violations' = [status |-> "returned", threshold |-> threshold,
                           nodes |-> ListViolations(voltage', threshold)]
    /\ pc' = "analysed"
    /\ UNCHANGED <<poles, conductors, transformers, G, pending, fixes_applied, pass,
                   result, first, engine, analysis, validation>>

\* detect_transformers, whose list fix_topology is then given
Detect ==
    /\ pc = "detect"
    /\ transformers' \in DetectTransformers(poles, conductors)
    /\ pc' = "build"
    /\ UNCHANGED <<poles, conductors, G, pending, fixes_applied, pass, result, first,
                   voltage, violations, engine, analysis, validation>>

\* analyze_network of the network engine
AnalyzeNetwork ==
    /\ pc = "engine"
    /\ analysis' \in AnalyzeNetworkResults(engine, engine.network,
                                           engine.transformer_node, engine.voltage_level)
    /\ pc' = "analysed"
    /\ UNCHANGED <<poles, conductors, transformers, G, pending, fixes_applied, pass,
                   result, first, voltage, violations, engine, validation>>

Next ==
    \/ BuildGraph
    \/ ProcessCycle
    \/ ConnectComponents
    \/ FixDirections
    \/ RemoveOrphanedNodes
    \/ Return
    \/ SecondFix
    \/ CalculateVoltage
    \/ CalculateVoltageEndpoint

Spec == Init /\ [][Next]_vars

\* The voltage analysis of a stored network.
NextStored ==
    \/ CalculateVoltage
    \/ CalculateVoltageEndpoint

StoredInit == InitStored /\ Idle /\ NoEngine

StoredSpec == StoredInit /\ [][NextStored]_vars

\* Transformer detection followed by one fix_topology.
NextDetect ==
    \/ Detect
    \/ BuildGraph
    \/ ProcessCycle
    \/ ConnectComponents
    \/ FixDirections
    \/ RemoveOrphanedNodes
    \/ Return

DetectInit == InitDetect /\ Idle /\ NoEngine

DetectSpec == DetectInit /\ [][NextDetect]_vars

\* One fix_topology on a meshed network: pole A is the transformer pole and
\* up to MaxLoopConductors conductors join distinct poles, one of them
\* possibly a long line.
InitLoop ==
    \E ps \in {s \in SUBSET {pr \in PoleIds \X PoleIds : pr[1] # pr[2]} :
                  Cardinality(s) <= MaxLoopConductors} :
      \E long \in LongSets(ps) :
        /\ poles = {Pole(p, "latlon", FALSE, FALSE, "", "") : p \in PoleIds}
        /\ conductors = ConductorsOf(ps, long)
        /\ transformers = {Given(PoleSeq[1])}
        /\ pc = "build"

NextLoop ==
    \/ BuildGraph
    \/ ProcessCycle
    \/ ConnectComponents
    \/ FixDirections
    \/ RemoveOrphanedNodes
    \/ Return

LoopInit == InitLoop /\ Idle /\ NoEngine

LoopSpec == LoopInit /\ [][NextLoop]_vars

\* Two fix_topology calls on one TopologyFixer.
NextReuse ==
    \/ BuildGraph
    \/ ProcessCycle
    \/ ConnectComponents
    \/ FixDirections
    \/ RemoveOrphanedNodes
    \/ Return
    \/ SameFixerAgain

ReuseSpec == Init /\ [][NextReuse]_vars

\* Transformer detection alone.
NextHub == Detect

HubInit == InitHub /\ Idle /\ NoEngine

HubSpec == HubInit /\ [][NextHub]_vars

\* The voltage analysis of the network engine.
NextEngine == AnalyzeNetwork

EngineInit ==
    /\ InitEngine /\ Idle
    /\ poles = {} /\ conductors = {} /\ transformers = {}

EngineSpec == EngineInit /\ [][NextEngine]_vars

(***************************************************************************)
(* NetworkModel (modules/network_engine/network_model.py)                  *)
(***************************************************************************)
\* The model under construction is held in engine: the graph (nodes, edges,
\* the nodes flagged has_transformer, connections_count per node), the
\* transformers and connections mappings, the last call and what it
\* signalled.
ModelPoles == FirstPoles(NumModelPoles)
TransformerIds == {"T1", "T2"}
ConnectionIds == {"K1", "K2"}
NoMapping == [x \in {} |-> None]
Called(model, op, id, pole_id, signal) ==
    [model EXCEPT !.call = <<op, id, pole_id>>, !.signal = signal,
                  !.calls = model.calls + 1]

\* add_pole: graph.add_node keeps the attributes of a node already there
AddPole(model, pole_id) ==
    [model EXCEPT
        !.network.nodes = @ \cup {pole_id},
        !.network.connections_count =
            [n \in DOMAIN @ \cup {pole_id} |-> IF n \in DOMAIN @ THEN @[n] ELSE 0]]

\* A variant of add_transformer without the check of the pole.
AddTransformerUnchecked(model, transformer_id, pole_id) ==
    [model EXCEPT
        !.network.has_transformer = @ \cup {pole_id},
        !.transformers = [x \in DOMAIN @ \cup {transformer_id} |->
                             IF x = transformer_id THEN pole_id ELSE @[x]],
        !.signal = "none"]
\* add_transformer
AddTransformer(model, transformer_id, pole_id) ==
    IF pole_id \notin model.network.nodes
    THEN [model EXCEPT !.signal = "ValueError"]
    ELSE [model EXCEPT
             !.network.has_transformer = @ \cup {pole_id},
             !.transformers = [x \in DOMAIN @ \cup {transformer_id} |->
                                  IF x = transformer_id THEN pole_id ELSE @[x]],
             !.signal = "none"]

\* add_conductor: a pole is added for an end that is not in the graph
AddConductor(model, from_pole, to_pole) ==
    LET withFrom == IF from_pole \notin model.network.nodes
                    THEN AddPole(model, from_pole) ELSE model
        withBoth == IF to_pole \notin withFrom.network.nodes
                    THEN AddPole(withFrom, to_pole) ELSE withFrom
    IN [withBoth EXCEPT !.network.edges = @ \cup {<<from_pole, to_pole>>}]

\* add_connection
AddConnection(model, connection_id, pole_id) ==
    IF pole_id \notin model.network.nodes
    THEN [model EXCEPT !.signal = "ValueError"]
    ELSE [model EXCEPT
             !.network.connections_count[pole_id] = @ + 1,
             !.connections = [x \in DOMAIN @ \cup {connection_id} |->
                                 IF x = connection_id THEN pole_id ELSE @[x]],
             !.signal = "none"]

\* NetworkModel.__init__
InitModel ==
    /\ engine = [status |-> "model",
                 network |-> [nodes |-> {}, edges |-> {}, has_transformer |-> {},
                              connections_count |-> NoMapping],
                 transformers |-> NoMapping,
                 connections |-> NoMapping,
                 call |-> <<"__init__", None, None>>,
                 signal |-> "none",
                 calls |-> 0]
    /\ pc = "model"

Building == pc = "model" /\ engine.calls < MaxModelCalls
OnlyModel ==
    UNCHANGED <<poles, conductors, transformers, pc, G, pending, fixes_applied, pass,
                result, first, voltage, violations, analysis, validation>>

CallAddPole ==
    /\ Building
    /\ \E p \in ModelPoles :
          engine' = AddPole(Called(engine, "add_pole", None, p, "none"), p)
    /\ OnlyModel

CallAddConductor ==
    /\ Building
    /\ \E u \in ModelPoles, v \in ModelPoles :
          engine' = AddConductor(Called(engine, "add_conductor", u, v, "none"), u, v)
    /\ OnlyModel

CallAddTransformer ==
    /\ Building
    /\ \E id \in TransformerIds, p \in ModelPoles :
          engine' = AddTransformer(Called(engine, "add_transformer", id, p, "none"), id, p)
    /\ OnlyModel

CallAddConnection ==
    /\ Building
    /\ \E id \in ConnectionIds, p \in ModelPoles :
          engine' = AddConnection(Called(engine, "add_connection", id, p, "none"), id, p)
    /\ OnlyModel

NextModel ==
    \/ CallAddPole
    \/ CallAddConductor
    \/ CallAddTransformer
    \/ CallAddConnection

ModelInit ==
    /\ InitModel /\ Idle
    /\ poles = {} /\ conductors = {} /\ transformers = {}

ModelSpec == ModelInit /\ [][NextModel]_vars

\* Lists as imported, before any cleaning: a conductor may name a pole id
\* that is not among the poles, and there may be no pole at all.  The lists
\* are validated, and then either searched for transformers and repaired, or
\* stored and analysed.
InitRaw ==
    \E np \in 0..NumPoles, mode \in {"detect", "stored"}, match \in MatchKinds,
       tx \in {{}, {PoleSeq[1]}} :
      \E ps \in PairSets(PoleIds, MaxRawConductors) :
        \E long \in LongSets(ps) :
          /\ mode = "detect" => tx = {}
          /\ mode = "stored" => match = "none"
          /\ poles = {Pole(p, "latlon", p = PoleSeq[1] /\ match = "name",
                           p = PoleSeq[1] /\ match = "id", "", "") : p \in FirstPoles(np)}
          /\ conductors = ConductorsOf(ps, long)
          /\ transformers = {Given(p) : p \in tx}
          /\ pc = mode

\* validate_network of the back end, on the lists as they came
ValidateNetwork ==
    /\ pc \in {"detect", "stored"}
    /\ validation = Nothing
    /\ validation' = ValidateNetworkResults(poles, conductors)
    /\ UNCHANGED <<poles, conductors, transformers, pc, G, pending, fixes_applied, pass,
                   result, first, voltage, violations, engine, analysis>>

\* validate_network of the engine, on the NetworkModel graph of the lists
EngineValidateNetwork ==
    /\ pc \in {"detect", "stored"}
    /\ validation = Nothing
    /\ validation' = EngineValidateResults(ModelGraph(poles, conductors), TransformerPoles)
    /\ UNCHANGED <<poles, conductors, transformers, pc, G, pending, fixes_applied, pass,
                   result, first, voltage, violations, engine, analysis>>

NextRaw ==
    \/ ValidateNetwork
    \/ EngineValidateNetwork
    \/ Detect
    \/ BuildGraph
    \/ ProcessCycle
    \/ ConnectComponents
    \/ FixDirections
    \/ RemoveOrphanedNodes
    \/ Return
    \/ CalculateVoltage
    \/ CalculateVoltageEndpoint

RawInit == InitRaw /\ Idle /\ NoEngine

RawSpec == RawInit /\ [][NextRaw]_vars

\* Records for validate_network alone: as above, and the list of poles may
\* hold a second record with the id of pole A.
InitRecords ==
    \E np \in 0..NumPoles, twice \in BOOLEAN :
      \E ps \in PairSets(PoleIds, MaxRawConductors) :
        /\ twice => np > 0
        /\ poles = {Pole(p, "latlon", FALSE, FALSE, "", "") : p \in FirstPoles(np)}
                      \cup (IF twice THEN {Pole(PoleSeq[1], "utm", FALSE, FALSE, "", "")}
                            ELSE {})
        /\ conductors = ConductorsOf(ps, {})
        /\ transformers = {}
        /\ pc = "stored"

NextRecords == ValidateNetwork

RecordsInit == InitRecords /\ Idle /\ NoEngine

RecordsSpec == RecordsInit /\ [][NextRecords]_vars

\* A chain A - B - C whose two conductors carry a conductor_spec and a
\* conductor_type, some of them in no catalog; pole A is the source.  The
\* chain is stored for the back-end calculator or handed to the engine.
ChainLength == 3
SpecIds == {"35", "50", "999"}
ConductorTypes == {"LV", "MV", "AAC_50"}
SpecifiedConductor(u, v, len, spec, type) ==
    Conductor(u, v, len) @@ [conductor_spec |-> spec, conductor_type |-> type]
InitCatalog ==
    \E l1 \in Lengths, l2 \in Lengths, s1 \in SpecIds, s2 \in SpecIds,
       t1 \in ConductorTypes, t2 \in ConductorTypes,
       mode \in {"stored", "engine"}, level \in VoltageLevels :
      LET chain == {SpecifiedConductor(PoleSeq[1], PoleSeq[2], l1, s1, t1),
                    SpecifiedConductor(PoleSeq[2], PoleSeq[3], l2, s2, t2)}
      IN /\ mode = "stored" => level = 230
         /\ poles = {Pole(p, "latlon", FALSE, FALSE, "", "") : p \in FirstPoles(ChainLength)}
         /\ conductors = chain
         /\ transformers = {Given(PoleSeq[1])}
         /\ pc = mode
         /\ engine = IF mode = "stored" THEN Nothing
                      ELSE [status |-> "ready",
                            voltage_drop_threshold |-> StatisticsThreshold,
                            default_load_per_connection |-> DefaultLoadPerConnection,
                            network |-> [nodes |-> FirstPoles(ChainLength),
                                         edges |-> chain,
                                         connections_count |->
                                             [n \in FirstPoles(ChainLength) |->
                                                 IF n = PoleSeq[1] THEN 0 ELSE 1]],
                            transformer_node |-> PoleSeq[1],
                            voltage_level |-> level]

NextCatalog ==
    \/ CalculateVoltage
    \/ CalculateVoltageEndpoint
    \/ AnalyzeNetwork

CatalogInit == InitCatalog /\ Idle

CatalogSpec == CatalogInit /\ [][NextCatalog]_vars

(***************************************************************************)
(* Properties                                                              *)
(***************************************************************************)
\* fix_topology has returned its lists and its report.
Returned == pc = "done" /\ result.status = "returned"
ReturnedGraph ==
    [nodes |-> {q.pole_id : q \in result.poles}, edges |-> result.conductors]

\* The number of directed simple paths from a node to a target.
RECURSIVE CountPaths(_, _, _, _)
RECURSIVE SumPaths(_, _, _, _)
CountPaths(E, from, target, seen) ==
    IF from = target THEN 1
    ELSE SumPaths(E, {e.to_pole : e \in {x \in E : x.from_pole = from}} \ seen,
                  target, seen)
SumPaths(E, nexts, target, seen) ==
    IF nexts = {} THEN 0
    ELSE LET n == CHOOSE x \in nexts : TRUE
         IN CountPaths(E, n, target, seen \cup {n})
            + SumPaths(E, nexts \ {n}, target, seen)

\* C1: after fix_topology on any input the returned graph has no directed
\* cycle: cycle detection on the output finds none, final_topology.has_cycles
\* is false and final_topology.is_radial is true.
C1_NoDirectedCycle ==
    Returned =>
        /\ IsDirectedAcyclic(ReturnedGraph)
        /\ ~result.report.final_topology.has_cycles
        /\ result.report.final_topology.is_radial

\* C2: after fix_topology the returned graph is radial: every node that is
\* not a transformer pole is reachable along directed edges from exactly one
\* transformer pole, and by exactly one directed path (stated for the runs
\* in which a transformer pole is in the returned graph).
C2_Radial ==
    (Returned /\ TransformerPoles \cap ReturnedGraph.nodes # {}) =>
        LET g == ReturnedGraph
            sources == TransformerPoles \cap g.nodes
        IN \A n \in g.nodes \ TransformerPoles :
              /\ Cardinality({s \in sources : CountPaths(g.edges, s, n, {s}) >= 1}) = 1
              /\ \A s \in sources : CountPaths(g.edges, s, n, {s}) <= 1

\* C3: a second fix_topology, on the lists an earlier one returned and with
\* the same transformer list, reports zero in every fixes_applied counter.
C3_Idempotent ==
    Returned /\ pass = 2 => result.report.fixes_applied = NoFixes

\* C4: when calculate_voltage_drop has run over the lists fix_topology
\* returned, from a transformer pole as its source, every conductor u->v with
\* a voltage at both ends has V(v) <= V(u) and V(v) >= 0.
C4_MonotoneDownstream ==
    (/\ pc = "analysed"
     /\ result.status = "returned"
     /\ voltage.status = "returned"
     /\ violations.status = "none") =>
        \A cv \in voltage.conductor_voltages :
            /\ cv.to_voltage <= cv.from_voltage
            /\ cv.to_voltage >= 0

\* C5: after calculate_voltage_drop with source s and source voltage V0 the
\* recorded V(s) is V0, and every other analysed pole v has a neighbour u,
\* over a conductor of segment drop dV, with V(v) = max(0, V(u) - dV).
C5_PropagationRule ==
    (/\ pc = "analysed"
     /\ voltage.status = "returned"
     /\ voltage.source_pole \in DOMAIN voltage.pole_voltages) =>
        LET pv == voltage.pole_voltages
            s == voltage.source_pole
        IN /\ pv[s] = voltage.source_voltage
           /\ \A v \in DOMAIN pv \ {s} :
                 \E u \in DOMAIN pv \ {v} :
                    \E c \in AnalysedConductors :
                       /\ Joins(c, u, v)
                       /\ pv[v] = Max(0, pv[u] - CalculateConductorVoltageDrop(
                                                     c, DefaultPowerFactor))

\* C6: a pole is listed as a violation exactly when its drop percent is
\* strictly above the threshold of the request, and the count in the
\* statistics (poles_below_threshold) is the number of these poles, whatever
\* the threshold.
C6_ViolationIffAboveThreshold ==
    (violations.status = "returned" /\ voltage.status = "returned") =>
        LET above == {n \in DOMAIN voltage.pole_voltages :
                         DropPercentExceeds(voltage.pole_voltages[n],
                                            voltage.source_voltage,
                                            violations.threshold)}
        IN /\ violations.nodes = above
           /\ voltage.statistics.poles_below_threshold = Cardinality(above)

\* C7: with the threshold at 100 and a positive source voltage a voltage
\* analysis reports no violation, whatever the network.
C7_NoViolationAtHundred ==
    /\ (analysis.status = "returned" /\ analysis.threshold_percent = 100) =>
           /\ analysis.violations = {}
           /\ analysis.is_valid
    /\ (violations.status = "returned" /\ violations.threshold = 100) =>
           /\ violations.nodes = {}
           /\ voltage.statistics.poles_below_threshold = 0

\* C8: fix_topology returns the same lists and report whatever the iteration
\* order of the sets it loops over: every order of the set of transformer
\* poles leads _fix_directions to the graph and the count it produced, and
\* every choice among equally close pairs of nodes leads _connect_components
\* to the graph it produced.
C8_OrderIndependent ==
    [][/\ pc = "direct" =>
            \A order \in Orders(TransformerPoles) :
               \E o \in DirectionOutcomes(G.nodes, G.edges, order) :
                  /\ G'.edges = o.edges
                  /\ fixes_applied'.direction_fixed =
                         fixes_applied.direction_fixed + o.count
       /\ (pc = "connect" /\ Cardinality(WeaklyConnectedComponents(G)) > 1) =>
            LET main == MainComponent(WeaklyConnectedComponents(G))
                stitchable == {c \in WeaklyConnectedComponents(G) \ {main} :
                                  BestConnections(main, c) # {}}
            IN \A picked \in Connections(main, stitchable) :
                  G'.edges = G.edges \cup {AutoConnection(pr) : pr \in picked}
      ]_vars

\* C9: Scenario 1.  For a triangle on A (the transformer pole), B and C with
\* three conductors of the same length and specification, one between each
\* two poles, fix_topology reports cycles_removed = 1 and returns exactly two
\* conductors, no directed cycle, and A with out-degree >= 1 and in-degree 0.
Scenario1 ==
    /\ pass = 1
    /\ {q.pole_id : q \in poles} = {"A", "B", "C"}
    /\ TransformerPoles = {"A"}
    /\ Cardinality(conductors) = 3
    /\ \A pair \in {{"A", "B"}, {"B", "C"}, {"C", "A"}} :
          \E c \in conductors : {c.from_pole, c.to_pole} = pair
    /\ \A c, d \in conductors : c.length = d.length /\ c.cable_size = d.cable_size
C9_Triangle ==
    (Returned /\ Scenario1) =>
        /\ result.report.fixes_applied.cycles_removed = 1
        /\ Cardinality(result.conductors) = 2
        /\ IsDirectedAcyclic(ReturnedGraph)
        /\ OutDegree(result.conductors, "A") >= 1
        /\ InDegree(result.conductors, "A") = 0

\* C10: Scenario 2.  For two weakly connected components {A, B} and {C, D}
\* where only A matches a transformer pattern (by name or by id),
\* detect_transformers returns exactly A, fix_topology with that list reports
\* disconnected_components_connected = 1, and the returned graph has one
\* weakly connected component and no node of degree zero.
Scenario2 ==
    /\ pass = 1
    /\ {q.pole_id : q \in poles} = {"A", "B", "C", "D"}
    /\ Cardinality(conductors) = 2
    /\ \A pair \in {{"A", "B"}, {"C", "D"}} :
          \E c \in conductors : {c.from_pole, c.to_pole} = pair
    /\ \A q \in poles : (q.name_match \/ q.id_match) <=> q.pole_id = "A"
C10_TwoComponents ==
    (Returned /\ Scenario2) =>
        /\ TransformerPoles = {"A"}
        /\ result.report.fixes_applied.disconnected_components_connected = 1
        /\ result.report.final_topology.num_components = 1
        /\ Cardinality(WeaklyConnectedComponents(ReturnedGraph)) = 1
        /\ Orphans(ReturnedGraph) = {}

\* C11: Scenario 4.  When a conductor names a pole id that is not among the
\* poles, validate_network lists that conductor in invalid_conductors, and
\* fix_topology returns (it does not raise) lists without that conductor and
\* without a pole of the missing id.
DanglingConductors == InvalidConductors(poles, conductors)
C11_DanglingReference ==
    /\ (validation.status = "returned" /\ validation.validator = "backend") =>
           \A c \in DanglingConductors : c.conductor_id \in validation.invalid_conductors
    /\ (pc = "done" /\ DanglingConductors # {}) =>
           /\ result.status = "returned"
           /\ result.conductors \cap DanglingConductors = {}
           /\ {q.pole_id : q \in result.poles} \subseteq {q.pole_id : q \in poles}

\* C12: Scenario 5.  On the empty graph (no pole, no conductor, no
\* transformer) detect_transformers, fix_topology, calculate_voltage_drop and
\* validate_network each return an empty result and none raises; fix_topology
\* also returns when the pruning has emptied the graph.
EmptyInput == poles = {} /\ conductors = {} /\ transformers = {}
C12_EmptyGraph ==
    /\ (EmptyInput /\ validation # Nothing) =>
           /\ validation.status = "returned"
           /\ validation.validator = "backend" =>
                  /\ validation.orphaned_poles = {}
                  /\ validation.invalid_conductors = {}
                  /\ validation.disconnected_components = {}
    /\ (EmptyInput /\ voltage # Nothing) =>
           voltage = EmptyResults(voltage.source_voltage)
    /\ (pc = "done" /\ G.nodes = {}) =>
           /\ result.status = "returned"
           /\ result.poles = {}
           /\ result.conductors = {}

\* C13: when calculate_voltage_drop is given no source and can determine none,
\* it returns the empty result: source_pole is None and there is no pole
\* voltage and no conductor voltage in it; in every other return source_pole
\* names a pole and at least one pole was analysed, so the two are told apart.
SourceUndetermined ==
    /\ violations.status = "returned"
    /\ \A condList \in ConductorLists(AnalysedConductors) :
          FindSourcePoles(PoleListOf(AnalysedPoles), condList,
                          BuildNetwork(PoleListOf(AnalysedPoles), condList)) = {None}
C13_NoSourceDistinct ==
    (pc = "analysed" /\ voltage.status = "returned") =>
        IF SourceUndetermined
        THEN /\ voltage.source_pole = None
             /\ DOMAIN voltage.pole_voltages = {}
             /\ voltage.conductor_voltages = {}
             /\ voltage.statistics.poles_analyzed = 0
        ELSE /\ voltage.source_pole # None
             /\ voltage.statistics.poles_analyzed >= 1
C13_Witness ==
    /\ pc = "analysed"
    /\ voltage.status = "returned"
    /\ SourceUndetermined
    /\ voltage.source_pole = None

\* C14: whenever a segment drop is computed for a conductor whose spec id is
\* not in the catalog, the default spec is used and a warning is logged for
\* that conductor: by the back-end calculator for every conductor it gave
\* voltages to, by the engine for every conductor on a path it followed.
UnmappedSpec(c) == Get(c, "conductor_spec", "50") \notin ResistanceCatalog
C14_UnmappedSpecWarned ==
    /\ (pc = "analysed" /\ voltage.status = "returned") =>
           \A cv \in voltage.conductor_voltages :
              \A c \in AnalysedConductors :
                 (c.conductor_id = cv.conductor_id /\ UnmappedSpec(c)) =>
                     c.conductor_id \in voltage.logged
    /\ (pc = "analysed" /\ analysis.status = "returned") =>
           \A n \in DOMAIN analysis.all_nodes :
              LET path == analysis.all_nodes[n].path_from_source
              IN \A i \in 1..(Len(path) - 1) :
                    LET type == Get(EdgeAt(engine.network.edges, path[i], path[i + 1]),
                                    "conductor_type", "AAC_35")
                    IN type \notin ConductorLibrary => type \in analysis.logged

\* C15: the repair drops nothing uncounted: the input poles that are not in
\* the output are as many as orphaned_nodes_removed, and the input conductors
\* that are not in the output (the synthetic ones set aside) are as many as
\* cycles_removed.
SyntheticConductors == {d \in result.conductors : d.auto_connected}
C15_NothingDroppedUncounted ==
    (Returned /\ pass = 1) =>
        LET counted == result.report.fixes_applied
        IN /\ Cardinality({q.pole_id : q \in poles} \ ReturnedGraph.nodes)
                 = counted.orphaned_nodes_removed
           /\ Cardinality(SyntheticConductors)
                 = counted.disconnected_components_connected
           /\ Cardinality(conductors)
                 - Cardinality(result.conductors \ SyntheticConductors)
                 = counted.cycles_removed

\* C16: after fix_topology no conductor of the output joins a pole to
\* itself, whatever self-loop conductors the input held.
C16_NoSelfLoop ==
    Returned => \A c \in result.conductors : c.from_pole # c.to_pole

\* C17: a component other than the main one that could not be stitched
\* because none of its nodes is geolocated is named as unresolved in the
\* report fix_topology returns.
ReportKeys == {"fixes_applied", "final_topology"}
UnlocatedComponents ==
    LET comps == WeaklyConnectedComponents(ReturnedGraph)
    IN IF Cardinality(comps) <= 1 THEN {}
       ELSE {c \in comps \ {MainComponent(comps)} :
                \A n \in c : PoleOf(n).geo = "none"}
C17_UnresolvedReported ==
    (Returned /\ pass = 1) =>
        \A c \in UnlocatedComponents :
           \E k \in DOMAIN result.report \ ReportKeys : c \in result.report[k]

\* C18: Scenario 3 and the segment-drop formula.  Propagating from pole A at
\* 11000 V down the chain A - B - C, the voltage lost over each conductor is
\* I * L_km * (R * cos phi + X * sin phi) with I = 10 A, cos phi = 0.85 and R
\* and X looked up by the conductor's spec and type, times sqrt(3) exactly
\* when the conductor is medium-voltage, and the voltages fall strictly along
\* the chain; with two 500 m conductors of the 0.641 ohm/km spec each segment
\* loses 2930 mV (2.935 V by hand, at the millivolt resolution of the model).
HandComputedDrop == 2930
ChainSourceVoltage == 11000000
ExpectedSegmentDrop(c) ==
    LET sin_phi == ISqrt(1000000 - 850 * 850)
        per_km == (ConductorResistance(c.conductor_spec) * 850
                   + ConductorReactance(c.conductor_type) * sin_phi) \div 1000
        single == (10 * c.length * per_km) \div 1000
    IN IF c.conductor_type = "MV" THEN (single * 1732) \div 1000 ELSE single
ChainFromSource ==
    /\ pc = "analysed"
    /\ voltage.status = "returned"
    /\ violations.status = "none"
    /\ voltage.source_pole = PoleSeq[1]
    /\ voltage.source_voltage = ChainSourceVoltage
    /\ \A c \in conductors : "conductor_spec" \in DOMAIN c
Scenario3 ==
    /\ ChainFromSource
    /\ \A c \in conductors :
          c.length = 500 /\ c.conductor_spec = "50" /\ c.conductor_type = "LV"
Detected == pc = "build"
DetectedBy(method) == {t \in transformers : t.detection_method = method}
C19_FirstMethodWins ==
    Detected =>
        /\ DetectedBy("topology") # {} => DetectByPatterns(poles) = {}
        /\ DetectedBy("subnetwork_root") # {} =>
              DetectByPatterns(poles) \cup DetectByTopology(poles, conductors) = {}

\* C20: detect_transformers returns at most one record per pole id, and the
\* record retained for a pole is one of that pole's detections with the
\* highest confidence among them (pattern 0.8, topology 0.9 without incoming
\* conductor or 0.6 with, subnetwork root 0.7); every detected pole is
\* retained.
Candidates(roots) ==
    DetectByPatterns(poles) \cup DetectByTopology(poles, conductors) \cup roots
C20_OnePerPoleHighestConfidence ==
    Detected =>
        /\ \A t, u \in transformers : t.pole_id = u.pole_id => t = u
        /\ \E roots \in DetectSubnetworkRoots(poles, conductors) :
              /\ transformers \subseteq Candidates(roots)
              /\ \A u \in Candidates(roots) :
                    \E t \in transformers :
                       t.pole_id = u.pole_id /\ t.confidence >= u.confidence
        /\ \A t \in transformers :
              \A u \in DetectByPatterns(poles) \cup DetectByTopology(poles, conductors) :
                 u.pole_id = t.pole_id => t.confidence >= u.confidence
\* C20: a pole detected by pattern (0.8) and then by topology (0.9), the
\* later and more confident record being the one retained.
C20_Witness ==
    /\ Detected
    /\ \E t \in transformers :
          /\ t.detection_method = "topology"
          /\ t.confidence = TopologySourceConfidence
          /\ \E u \in DetectByPatterns(poles) : u.pole_id = t.pole_id

\* C21: _find_network_root returns a pole of the subnetwork with an outgoing
\* and no incoming conductor (None when there is none); among several such
\* poles one whose id matches a pattern if there is one, else the
\* lexicographically first; and the pole returned is determined by the
\* inputs, also when several candidates match a pattern.
SitePoles(site) == {q \in poles : q.site_name = site}
SiteConductors(site) == {c \in conductors : IdPrefix(poles, c.from_pole) = site}
RootCandidates(site) ==
    LET ids == {q.pole_id : q \in SitePoles(site)}
    IN ({c.from_pole : c \in SiteConductors(site)} \cap ids)
          \ {c.to_pole : c \in SiteConductors(site)}
MatchingCandidates(site) ==
    {r \in RootCandidates(site) : \E q \in poles : q.pole_id = r /\ q.id_match}
C21_RootDetermined ==
    Detected =>
        \A site \in SiteNames(poles) :
           LET returned == FindNetworkRoot(SitePoles(site), SiteConductors(site))
           IN /\ Cardinality(returned) = 1
              /\ \A r \in returned :
                    /\ RootCandidates(site) = {} <=> r = None
                    /\ r # None => r \in RootCandidates(site)
                    /\ MatchingCandidates(site) # {} => r \in MatchingCandidates(site)
                    /\ (r # None /\ MatchingCandidates(site) = {}) =>
                          \A o \in RootCandidates(site) : Idx(r) <= Idx(o)

\* C22: the fallback of source selection.  When no pole matches a pattern,
\* no conductor is medium-voltage and no pole belongs to a site (so that no
\* subnetwork root exists), the source pole that calculate_voltage_drop
\* detects for a non-empty network is the first pole of the input list.
NoSourceHint ==
    /\ DetectByPatterns(AnalysedPoles) = {}
    /\ SiteNames(AnalysedPoles) = {}
    /\ \A c \in AnalysedConductors : Get(c, "conductor_type", None) # "MV"
SourceDetected ==
    /\ pc = "analysed"
    /\ violations.status = "returned"
    /\ voltage.status = "returned"
C22_FallbackFirstNode ==
    (SourceDetected /\ NoSourceHint /\ AnalysedPoles # {}) =>
        voltage.source_pole = PoleListOf(AnalysedPoles)[1]

\* C23: the validation rate of validate_network is 100 times the number of
\* pole and conductor records without a reported issue (a pole that is
\* orphaned or whose id is reported as duplicated, a conductor reported as
\* invalid) over the number of records; it lies between 0 and 100 and is 0
\* when there is no record.
Validated == validation.status = "returned" /\ validation.validator = "backend"
FlaggedPoles ==
    {q \in poles : q.pole_id \in validation.orphaned_poles
                                   \cup validation.duplicate_pole_ids}
FlaggedConductors == {c \in conductors : c.conductor_id \in validation.invalid_conductors}
C23_ValidationRate ==
    Validated =>
        LET total == Cardinality(poles) + Cardinality(conductors)
            clean == total - Cardinality(FlaggedPoles) - Cardinality(FlaggedConductors)
            rate == validation.statistics.validation_rate
        IN /\ rate >= 0 /\ rate <= 100
           /\ total = 0 => rate = 0
           /\ total > 0 => rate = (100 * clean) \div total

\* C24: validate_network is read-only and reports disconnected components
\* without repairing them: the call leaves the pole and conductor records as
\* they were, and whenever the poles, joined by the conductors whose ends are
\* both poles, fall into more than one component, disconnected_components
\* lists every component.
RecordComponents ==
    WeaklyConnectedComponents([nodes |-> {q.pole_id : q \in poles},
                               edges |-> conductors \ DanglingConductors])
C24_ValidatorReadOnly ==
    /\ [][ValidateNetwork => UNCHANGED <<poles, conductors>>]_vars
    /\ [](Validated =>
            (Cardinality(RecordComponents) > 1 =>
                 validation.disconnected_components = RecordComponents))

\* C25: in NetworkModel, add_transformer and add_connection naming a pole
\* that is not in the graph raise ValueError and leave the graph, the
\* transformers and the connections as they were, while add_conductor adds
\* the missing ends; so after any sequence of add_pole, add_conductor,
\* add_transformer and add_connection calls every end of an edge and every
\* pole of a transformer or of a connection is a node of the graph.
ModelContents(model) == <<model.network, model.transformers, model.connections>>
ReferencesResolved(model) ==
    /\ \A e \in model.network.edges : e[1] \in model.network.nodes
                                        /\ e[2] \in model.network.nodes
    /\ \A x \in DOMAIN model.transformers : model.transformers[x] \in model.network.nodes
    /\ \A x \in DOMAIN model.connections : model.connections[x] \in model.network.nodes
    /\ model.network.has_transformer \subseteq model.network.nodes
    /\ DOMAIN model.network.connections_count = model.network.nodes
NamesAbsentPole ==
    /\ engine'.call[1] \in {"add_transformer", "add_connection"}
    /\ engine'.call[3] \notin engine.network.nodes
C25_AbsentElementSignalled ==
    /\ [](pc = "model" => ReferencesResolved(engine))
    /\ [][NamesAbsentPole <=>
             (engine'.signal = "ValueError"
                 /\ ModelContents(engine') = ModelContents(engine))]_vars
\* C25: add_transformer has raised for a pole that is not in a graph which
\* holds a conductor whose ends add_conductor created.
C25_Witness ==
    /\ pc = "model"
    /\ engine.signal = "ValueError"
    /\ engine.call[1] = "add_transformer"
    /\ engine.call[3] \notin engine.network.nodes
    /\ engine.network.edges # {}
    /\ DOMAIN engine.connections # {}

\* C26: component stitching.  With the main component the one that holds a
\* known source (else the largest), _connect_components adds, for every other
\* component that has a positioned node (UTM or latitude/longitude, the main
\* component having one too), exactly one synthetic conductor: it joins a
\* node of the main component to a node of that component at the least
\* distance between positioned nodes of the two, is tagged auto_connected
\* with the default cable, and disconnected_components_connected grows by
\* one for each.
Positioned(n) == PoleOf(n).geo # "none"
PositionedPairs(main, comp) ==
    {pr \in main \X comp : Positioned(pr[1]) /\ Positioned(pr[2])}
Stitches(main, comp) ==
    {e \in G'.edges \ G.edges : e.from_pole \in main /\ e.to_pole \in comp}
C26_OneStitchPerComponent ==
    [][pc = "connect" =>
         LET comps == WeaklyConnectedComponents(G)
             main == MainComponent(comps)
             others == {c \in comps \ {main} : PositionedPairs(main, c) # {}}
         IN /\ \A c \in others :
                  /\ Cardinality(Stitches(main, c)) = 1
                  /\ \A e \in Stitches(main, c) :
                        /\ e.auto_connected
                        /\ e.cable_size = "AAC_35"
                        /\ Positioned(e.from_pole) /\ Positioned(e.to_pole)
                        /\ \A pr \in PositionedPairs(main, c) :
                              SquaredDistance(e.from_pole, e.to_pole)
                                 <= SquaredDistance(pr[1], pr[2])
            /\ Cardinality(G'.edges \ G.edges) = Cardinality(others)
            /\ fixes_applied'.disconnected_components_connected
                  = fixes_applied.disconnected_components_connected
                       + Cardinality(others)
      ]_vars

\* C27: direction correction.  After _fix_directions, every known source s
\* that is a node of the graph has in-degree 0 and reaches every node of its
\* component along the directed edges; and each edge is still there with
\* all its attributes, as it was or reversed.
SourcesInGraph == TransformerPoles \cap G.nodes
C27_DirectedFromEverySource ==
    [][pc = "direct" =>
         /\ \A s \in SourcesInGraph :
               /\ InDegree(G'.edges, s) = 0
               /\ WeakClosure({s}, G.nodes, G.edges) \subseteq Descendants({s}, G'.edges)
         /\ \A e \in G.edges : e \in G'.edges \/ Reverse(e) \in G'.edges
         /\ Cardinality(G'.edges) = Cardinality(G.edges)
      ]_vars

\* C28: direction correction preserves acyclicity: when the graph that
\* enters _fix_directions has no directed cycle, the graph that leaves it has
\* none, whatever breadth-first tree the traversal builds.
C28_DirectionKeepsAcyclic ==
    [][(pc = "direct" /\ IsDirectedAcyclic(G)) => IsDirectedAcyclic(G')]_vars

\* C29: cycle removal cuts only what is needed: every conductor that
\* _remove_cycles removes lies, when it is removed, on a directed cycle of
\* the graph as it then is; no conductor is taken from an enumerated cycle
\* that an earlier removal has already broken.
OnDirectedCycle(e) ==
    \E cyc \in SimpleCycles(G.nodes, G.edges) : <<e.from_pole, e.to_pole>> \in cyc
C29_OnlyNeededCuts ==
    [][pc = "cycle_loop" => \A e \in G.edges \ G'.edges : OnDirectedCycle(e)]_vars

\* C30: each run's fix report is its own.  The counts in the report of a
\* second fix_topology call on the same TopologyFixer are those of the fixes
\* of that call (the poles it dropped, the synthetic conductors it added,
\* the conductors it removed), and the report the first call returned reads
\* as it did when it was returned.
C30_ReportOfItsRun ==
    /\ (pass = 2 /\ first.status = "returned") =>
           FirstReport = first.report
    /\ (pass = 2 /\ pc = "done" /\ result.status = "returned") =>
           LET counted == result.report.fixes_applied
               added == {d \in result.conductors \ conductors : d.auto_connected}
           IN /\ counted.orphaned_nodes_removed
                    = Cardinality(poles) - Cardinality(result.poles)
              /\ counted.disconnected_components_connected = Cardinality(added)
              /\ counted.cycles_removed
                    = Cardinality(conductors) + Cardinality(added)
                         - Cardinality(result.conductors)

====
